---------------------------- MODULE Spec2Model ----------------------------
(***************************************************************************)
(* A model of lib/pymafx/utils/keypoints.py: the keypoint schema, the      *)
(* left/right flips, the heatmap-label encoder, the argmax decoder, the    *)
(* OKS suppression and the soft-integral decoder.                          *)
(*                                                                         *)
(* Arrays live in `heap`, a store of named buffers, so that a copy, a view *)
(* and an in-place write are different things, as they are in numpy.       *)
(* Scalars (arguments, configuration values, local variables, returned     *)
(* references) live in `env`; `pc` is the position of the running call.    *)
(*                                                                         *)
(* Arithmetic is exact: a coordinate is an integer number of 1/Unit pixels *)
(* or a fraction [num, den]; the float special values of a division by     *)
(* zero (inf, -inf, nan) are modelled explicitly.                          *)
(***************************************************************************)
EXTENDS Integers, Sequences, FiniteSets, TLC

VARIABLES heap, env, pc

vars == <<heap, env, pc>>

(***************************************************************************)
(* Bounds of the model.                                                    *)
(***************************************************************************)
\* number of instances (rois) in a batch
NumRois == 2
\* largest heatmap side length / integral extent
MaxHeatmapSize == 2

(***************************************************************************)
(* get_keypoints: the COCO schema and its left/right correspondence.       *)
(***************************************************************************)
keypoints ==
    << "nose", "left_eye", "right_eye", "left_ear", "right_ear",
       "left_shoulder", "right_shoulder", "left_elbow", "right_elbow",
       "left_wrist", "right_wrist", "left_hip", "right_hip",
       "left_knee", "right_knee", "left_ankle", "right_ankle" >>

\* the dict, as its items in insertion order
keypoint_flip_map ==
    << <<"left_eye", "right_eye">>, <<"left_ear", "right_ear">>,
       <<"left_shoulder", "right_shoulder">>, <<"left_elbow", "right_elbow">>,
       <<"left_wrist", "right_wrist">>, <<"left_hip", "right_hip">>,
       <<"left_knee", "right_knee">>, <<"left_ankle", "right_ankle">> >>

\* list.index: the 0-based position of the first occurrence
ListIndex(list, name) ==
    (CHOOSE i \in 1..Len(list) :
        list[i] = name /\ \A j \in 1..(i - 1) : list[j] # name) - 1

NumKp == Len(keypoints)
Joints == 0..(NumKp - 1)
Insts == 0..(NumRois - 1)

(***************************************************************************)
(* ndarray.copy(): a new buffer `fresh` holding the contents of `src`.     *)
(* The result names the buffer the caller goes on to write.                *)
(***************************************************************************)
ndarray_alias(h, src, fresh) ==
    [ref |-> src, heap |-> h]

ndarray_copy(h, src, fresh) ==
    [ref |-> fresh, heap |-> [h EXCEPT ![fresh] = h[src]]]

(***************************************************************************)
(* flip_keypoints                                                          *)
(***************************************************************************)
\* flipped_kps[:, :, dstJ] = keypoint_coords[:, :, srcJ]
AssignJoint(h, dst, dstJ, src, srcJ) ==
    [h EXCEPT ![dst] =
        [n \in DOMAIN h[dst] |->
            [c \in DOMAIN h[dst][n] |->
                [h[dst][n][c] EXCEPT ![dstJ] = h[src][n][c][srcJ]]]]]

\* the loop over keypoint_flip_map.items(), from item p on
RECURSIVE SwapPairs(_, _, _, _, _, _)
SwapPairs(h, dst, src, names, flip_map, p) ==
    IF p > Len(flip_map) THEN h
    ELSE LET lid == ListIndex(names, flip_map[p][1])
             rid == ListIndex(names, flip_map[p][2])
             h1  == AssignJoint(h, dst, lid, src, rid)
             h2  == AssignJoint(h1, dst, rid, src, lid)
         IN  SwapPairs(h2, dst, src, names, flip_map, p + 1)

\* flipped_kps[:, 0, :] = width - flipped_kps[:, 0, :] - 1
MirrorX(h, dst, width) ==
    [h EXCEPT ![dst] =
        [n \in DOMAIN h[dst] |->
            [h[dst][n] EXCEPT ![0] =
                [k \in DOMAIN h[dst][n][0] |-> width - h[dst][n][0][k] - 1]]]]

\* without the visibility rule of lines 70-71
KeepInvisibleX(h, dst) == h

\* inds = np.where(flipped_kps[:, 2, :] == 0); flipped_kps[inds[0], 0, inds[1]] = 0
ZeroInvisibleX(h, dst) ==
    [h EXCEPT ![dst] =
        [n \in DOMAIN h[dst] |->
            [h[dst][n] EXCEPT ![0] =
                [k \in DOMAIN h[dst][n][0] |->
                    IF h[dst][n][2][k] = 0 THEN 0 ELSE h[dst][n][0][k]]]]]

flip_keypoints(h, names, flip_map, keypoint_coords, width, fresh) ==
    LET c  == ndarray_copy(h, keypoint_coords, fresh)
        h1 == SwapPairs(c.heap, c.ref, keypoint_coords, names, flip_map, 1)
        h2 == MirrorX(h1, c.ref, width)
        h3 == ZeroInvisibleX(h2, c.ref)
    IN  [ref |-> c.ref, heap |-> h3]

(***************************************************************************)
(* flip_heatmaps                                                           *)
(***************************************************************************)
\* heatmaps_flipped[:, dstJ, :, :] = heatmaps[:, srcJ, :, :]
AssignChannel(h, dst, dstJ, src, srcJ) ==
    [h EXCEPT ![dst] =
        [n \in DOMAIN h[dst] |-> [h[dst][n] EXCEPT ![dstJ] = h[src][n][srcJ]]]]

\* the loop over flip_map.items(): the right slot is written first
RECURSIVE SwapChannels(_, _, _, _, _, _)
SwapChannels(h, dst, src, names, flip_map, p) ==
    IF p > Len(flip_map) THEN h
    ELSE LET lid == ListIndex(names, flip_map[p][1])
             rid == ListIndex(names, flip_map[p][2])
             h1  == AssignChannel(h, dst, rid, src, lid)
             h2  == AssignChannel(h1, dst, lid, src, rid)
         IN  SwapChannels(h2, dst, src, names, flip_map, p + 1)

\* a[:, :, :, :], the last axis read in its own order
KeepLastAxis(h, a, view) == [h EXCEPT ![view] = h[a]]

\* a[:, :, :, ::-1], read out into the buffer `view` that the caller is handed
ReverseLastAxis(h, a, view) ==
    [h EXCEPT ![view] =
        [n \in DOMAIN h[a] |->
            [k \in DOMAIN h[a][n] |->
                [r \in DOMAIN h[a][n][k] |->
                    LET W == Cardinality(DOMAIN h[a][n][k][r])
                    IN  [w \in DOMAIN h[a][n][k][r] |-> h[a][n][k][r][W - 1 - w]]]]]]

flip_heatmaps(h, heatmaps, fresh) ==
    LET c  == ndarray_copy(h, heatmaps, fresh)
        h1 == SwapChannels(c.heap, c.ref, heatmaps, keypoints, keypoint_flip_map, 1)
        h2 == ReverseLastAxis(h1, c.ref, c.ref)
    IN  [ref |-> c.ref, heap |-> h2]

(***************************************************************************)
(* The flips as calls: flip_keypoints and flip_heatmaps are each applied   *)
(* to a caller-supplied array and then to their own result.                *)
(***************************************************************************)
FlipBufs == {"keypoint_coords", "flipped_kps", "flipped_again",
             "heatmaps", "heatmaps_flipped", "heatmaps_flipped_again"}

Widths == {3, 4}
FocusX == {0, 2}
FocusVis == {0, 1}

\* a (NumRois, 4, 17) keypoint array: a ground pattern that tells the joints
\* and the instances apart, with two joints of instance 0 set freely
KpGround(n, c, k) ==
    CASE c = 0 -> (k + n) % 3
      [] c = 1 -> 20 + k + 100 * n
      [] c = 2 -> (k + n) % 2
      [] OTHER -> 40 + k + 100 * n

KpArray(j1, x1, v1, j2, x2, v2) ==
    [n \in Insts |-> [c \in 0..3 |-> [k \in Joints |->
        IF n = 0 /\ k = j2 /\ c = 0 THEN x2
        ELSE IF n = 0 /\ k = j2 /\ c = 2 THEN v2
        ELSE IF n = 0 /\ k = j1 /\ c = 0 THEN x1
        ELSE IF n = 0 /\ k = j1 /\ c = 2 THEN v1
        ELSE KpGround(n, c, k)]]]

\* a (NumRois, 17, H, W) heatmap array with one cell set freely
HmArray(H, W, n1, k1, r1, w1, v) ==
    [n \in Insts |-> [k \in Joints |-> [r \in 0..(H - 1) |-> [w \in 0..(W - 1) |->
        IF n = n1 /\ k = k1 /\ r = r1 /\ w = w1 THEN v
        ELSE 1000 * n + 100 * k + 10 * r + w]]]]

NoBufs(bufs) == [b \in bufs |-> <<>>]

InitFlip ==
    /\ pc = "start"
    /\ \/ \E j1 \in Joints, j2 \in Joints, x1 \in FocusX, x2 \in FocusX,
            v1 \in FocusVis, v2 \in FocusVis, width \in Widths :
            /\ heap = [NoBufs(FlipBufs) EXCEPT
                          !["keypoint_coords"] = KpArray(j1, x1, v1, j2, x2, v2)]
            /\ env = [op |-> "flip_keypoints", arg |-> "keypoint_coords",
                      width |-> width, ret1 |-> "", ret2 |-> ""]
       \/ \E H \in 1..MaxHeatmapSize, W \in 1..MaxHeatmapSize :
          \E n1 \in Insts, k1 \in Joints, r1 \in 0..(H - 1), w1 \in 0..(W - 1),
             v \in {-1, 5000} :
            /\ heap = [NoBufs(FlipBufs) EXCEPT
                          !["heatmaps"] = HmArray(H, W, n1, k1, r1, w1, v)]
            /\ env = [op |-> "flip_heatmaps", arg |-> "heatmaps",
                      width |-> W, ret1 |-> "", ret2 |-> ""]

FlipKeypoints ==
    /\ pc = "start" /\ env.op = "flip_keypoints"
    /\ LET r == flip_keypoints(heap, keypoints, keypoint_flip_map,
                               env.arg, env.width, "flipped_kps")
       IN  /\ heap' = r.heap
           /\ env' = [env EXCEPT !.ret1 = r.ref]
    /\ pc' = "flipped"

FlipKeypointsAgain ==
    /\ pc = "flipped" /\ env.op = "flip_keypoints"
    /\ LET r == flip_keypoints(heap, keypoints, keypoint_flip_map,
                               env.ret1, env.width, "flipped_again")
       IN  /\ heap' = r.heap
           /\ env' = [env EXCEPT !.ret2 = r.ref]
    /\ pc' = "flipped_twice"

FlipHeatmaps ==
    /\ pc = "start" /\ env.op = "flip_heatmaps"
    /\ LET r == flip_heatmaps(heap, env.arg, "heatmaps_flipped")
       IN  /\ heap' = r.heap
           /\ env' = [env EXCEPT !.ret1 = r.ref]
    /\ pc' = "flipped"

FlipHeatmapsAgain ==
    /\ pc = "flipped" /\ env.op = "flip_heatmaps"
    /\ LET r == flip_heatmaps(heap, env.ret1, "heatmaps_flipped_again")
       IN  /\ heap' = r.heap
           /\ env' = [env EXCEPT !.ret2 = r.ref]
    /\ pc' = "flipped_twice"

NextFlip == FlipKeypoints \/ FlipKeypointsAgain \/ FlipHeatmaps \/ FlipHeatmapsAgain

SpecFlip == InitFlip /\ [][NextFlip]_vars

(***************************************************************************)
(* Properties of the flips.                                                *)
(***************************************************************************)
\* C5: flip_keypoints applied twice returns the original array for every
\* joint whose visibility is not 0; a joint whose visibility is 0 comes back
\* with x = 0 and its other three channels as they were.
FlipKeypointsTwice ==
    (pc = "flipped_twice" /\ env.op = "flip_keypoints") =>
        LET orig  == heap[env.arg]
            twice == heap[env.ret2]
        IN  \A n \in Insts, k \in Joints :
                IF orig[n][2][k] # 0
                THEN \A c \in 0..3 : twice[n][c][k] = orig[n][c][k]
                ELSE /\ twice[n][0][k] = 0
                     /\ \A c \in 1..3 : twice[n][c][k] = orig[n][c][k]

\* a paired joint was invisible with a stale x, and another was visible
FlipKeypointsTwiceWitness ==
    /\ pc = "flipped_twice" /\ env.op = "flip_keypoints"
    /\ heap[env.arg][0][2][1] = 0 /\ heap[env.arg][0][0][1] = 2
    /\ heap[env.ret2][0][0][1] = 0
    /\ heap[env.arg][0][2][2] = 1 /\ heap[env.arg][0][0][2] = 2
    /\ heap[env.ret2][0][0][2] = 2
    /\ heap[env.ret1][0][0][1] = env.width - 3

\* the left/right partner of a joint of the COCO schema: the nose is its own,
\* the left joints are the odd indices and the right ones follow them
Partner(k) == IF k = 0 THEN 0 ELSE IF k % 2 = 1 THEN k + 1 ELSE k - 1

\* C6: one flip_heatmaps gives out[n,k,h,w] = in[n,partner(k),h,W-1-w], and
\* flip_heatmaps applied twice returns the original array exactly.
FlipHeatmapsTwice ==
    (env.op = "flip_heatmaps" /\ pc # "start") =>
        LET orig == heap[env.arg]
            once == heap[env.ret1]
        IN  /\ DOMAIN once = DOMAIN orig
            /\ \A n \in DOMAIN orig : \A k \in Joints :
               \A r \in DOMAIN orig[n][k] : \A w \in DOMAIN orig[n][k][r] :
                  once[n][k][r][w] = orig[n][Partner(k)][r][env.width - 1 - w]
            /\ pc = "flipped_twice" => heap[env.ret2] = orig

\* a 2-wide map whose free cell sits in a right-hand joint, flipped twice
FlipHeatmapsTwiceWitness ==
    /\ pc = "flipped_twice" /\ env.op = "flip_heatmaps"
    /\ env.width = 2
    /\ heap[env.arg][0][4][0][1] = 5000
    /\ heap[env.ret1][0][3][0][0] = 5000
    /\ heap[env.ret2][0][4][0][1] = 5000

(***************************************************************************)
(* Floating-point values, exactly: a finite value is the fraction num/den  *)
(* (den > 0), and inf, -inf and nan are what IEEE arithmetic makes of a    *)
(* division by zero and of what is computed from it.                       *)
(***************************************************************************)
F(num, den) == [t |-> "fin", num |-> num, den |-> den]
PosInf == [t |-> "inf", num |-> 1, den |-> 0]
NegInf == [t |-> "-inf", num |-> -1, den |-> 0]
NaN == [t |-> "nan", num |-> 0, den |-> 0]

IsFin(a) == a.t = "fin"
IsNaN(a) == a.t = "nan"
\* -1, 0 or 1; not for nan
FSign(a) == IF a.num > 0 THEN 1 ELSE IF a.num < 0 THEN -1 ELSE 0
Signed(s) == IF s > 0 THEN PosInf ELSE IF s < 0 THEN NegInf ELSE NaN

FNeg(a) ==
    CASE a.t = "fin" -> F(-a.num, a.den)
      [] a.t = "inf" -> NegInf
      [] a.t = "-inf" -> PosInf
      [] OTHER -> NaN

FAdd(a, b) ==
    IF IsNaN(a) \/ IsNaN(b) THEN NaN
    ELSE IF IsFin(a) /\ IsFin(b)
         THEN IF a.den = b.den THEN F(a.num + b.num, a.den)
              ELSE F(a.num * b.den + b.num * a.den, a.den * b.den)
    ELSE IF IsFin(a) THEN b
    ELSE IF IsFin(b) THEN a
    ELSE IF a.t = b.t THEN a ELSE NaN

FSub(a, b) == FAdd(a, FNeg(b))

FMul(a, b) ==
    IF IsNaN(a) \/ IsNaN(b) THEN NaN
    ELSE IF IsFin(a) /\ IsFin(b) THEN F(a.num * b.num, a.den * b.den)
    ELSE Signed(FSign(a) * FSign(b))

FDiv(a, b) ==
    IF IsNaN(a) \/ IsNaN(b) THEN NaN
    ELSE IF IsFin(b)
         THEN IF b.num = 0 THEN Signed(FSign(a))
              ELSE IF IsFin(a)
                   THEN IF b.num > 0 THEN F(a.num * b.den, a.den * b.num)
                        ELSE F(-(a.num * b.den), -(a.den * b.num))
                   ELSE Signed(FSign(a) * FSign(b))
    ELSE IF IsFin(a) THEN F(0, 1) ELSE NaN

\* np.floor and np.ceil
FFloor(a) == IF IsFin(a) THEN F(a.num \div a.den, 1) ELSE a
FCeil(a) == IF IsFin(a) THEN F(-((-a.num) \div a.den), 1) ELSE a

\* comparisons: every comparison with nan is false
FLt(a, b) ==
    /\ ~IsNaN(a) /\ ~IsNaN(b)
    /\ IF IsFin(a) /\ IsFin(b) THEN a.num * b.den < b.num * a.den
       ELSE IF IsFin(a) THEN b.t = "inf"
       ELSE IF IsFin(b) THEN a.t = "-inf"
       ELSE a.t = "-inf" /\ b.t = "inf"
FEq(a, b) ==
    /\ ~IsNaN(a) /\ ~IsNaN(b)
    /\ IF IsFin(a) /\ IsFin(b) THEN a.num * b.den = b.num * a.den
       ELSE a.t = b.t
FLe(a, b) == FLt(a, b) \/ FEq(a, b)
FGe(a, b) == FLe(b, a)
FGt(a, b) == FLt(b, a)

\* np.maximum(a, b): nan propagates
FMax(a, b) == IF IsNaN(a) \/ IsNaN(b) THEN NaN ELSE IF FLt(a, b) THEN b ELSE a

\* the value of an integer, and the integer a finite whole value holds
FInt(n) == F(n, 1)
IntOf(a) == a.num \div a.den

\* pixels are counted in 1/Unit: the grid the inputs are drawn from
Unit == 8
Px(u) == F(u, Unit)

(***************************************************************************)
(* keypoints_to_heatmap_labels.  `kps` is the (N, 4, K) keypoint array     *)
(* (x, y in 1/Unit pixels, the visibility an integer), `rois` the (N, 4)   *)
(* array of float values, HS is cfg.KRCNN.HEATMAP_SIZE.                    *)
(***************************************************************************)
\* scale_x = cfg.KRCNN.HEATMAP_SIZE / (rois[:, 2] - rois[:, 0]), for one roi;
\* lo, hi are the columns (0, 2) for x and (1, 3) for y
RoiScale(roi, lo, hi, HS) == FDiv(FInt(HS), FSub(roi[hi], roi[lo]))

\* x[x_boundary_inds] = cfg.KRCNN.HEATMAP_SIZE - 1, left out
KeepBoundary(x, n, boundary_inds, HS) == x

\* if len(x_boundary_inds) > 0: x[x_boundary_inds] = cfg.KRCNN.HEATMAP_SIZE - 1
ClampBoundary(x, n, boundary_inds, HS) ==
    IF n \in boundary_inds THEN FInt(HS - 1) ELSE x

\* the discrete coordinate of joint kp of instance n along one axis
\* (ch = 0 for x with roi columns 0, 2; ch = 1 for y with roi columns 1, 3)
DiscreteCoord(kps, rois, HS, n, kp, ch) ==
    LET raw(m) == Px(kps[m][ch][kp])
        boundary_inds == {m \in DOMAIN rois : FEq(raw(m), rois[m][ch + 2])}
        scaled == FMul(FSub(raw(n), rois[n][ch]), RoiScale(rois[n], ch, ch + 2, HS))
    IN  ClampBoundary(FFloor(scaled), n, boundary_inds, HS)

\* valid = logical_and(valid_loc, vis).astype(np.int32)
ValidAt(kps, rois, HS, n, kp) ==
    LET x == DiscreteCoord(kps, rois, HS, n, kp, 0)
        y == DiscreteCoord(kps, rois, HS, n, kp, 1)
        valid_loc == /\ FGe(x, FInt(0)) /\ FGe(y, FInt(0))
                     /\ FLt(x, FInt(HS)) /\ FLt(y, FInt(HS))
        vis == kps[n][2][kp] > 0
    IN  IF valid_loc /\ vis THEN 1 ELSE 0

\* lin_ind = y * cfg.KRCNN.HEATMAP_SIZE + x
LinInd(kps, rois, HS, n, kp) ==
    FAdd(FMul(DiscreteCoord(kps, rois, HS, n, kp, 1), FInt(HS)),
         DiscreteCoord(kps, rois, HS, n, kp, 0))

\* the two (N, K) arrays the call returns, written to fresh buffers
keypoints_to_heatmap_labels(h, kpsRef, roisRef, cfg, labelsBuf, weightsBuf) ==
    LET kps  == h[kpsRef]
        rois == h[roisRef]
        HS   == cfg.HEATMAP_SIZE
        K    == cfg.NUM_KEYPOINTS
        heatmaps == [n \in DOMAIN rois |-> [kp \in 0..(K - 1) |->
                        FMul(LinInd(kps, rois, HS, n, kp),
                             FInt(ValidAt(kps, rois, HS, n, kp)))]]
        weights  == [n \in DOMAIN rois |-> [kp \in 0..(K - 1) |->
                        FInt(ValidAt(kps, rois, HS, n, kp))]]
    IN  [heatmaps |-> labelsBuf, weights |-> weightsBuf,
         heap |-> [h EXCEPT ![labelsBuf] = heatmaps, ![weightsBuf] = weights]]

(***************************************************************************)
(* The inputs of the encoder and of the decoder.                           *)
(***************************************************************************)
\* roi widths and heights: none, half a pixel, one pixel, two pixels
RoiSizes == {0, Unit \div 2, Unit, 2 * Unit}
\* the left edge of instance 0's roi; its top edge is 0
RoiOrigins == {2}

\* instance 0 is drawn freely; a further instance n has a two-pixel roi and
\* its first joint on the roi's right edge
RoiOf(n, x1, y1, x2, y2) ==
    LET row == IF n = 0 THEN <<x1, y1, x2, y2>>
               ELSE <<n, 0, n + 2 * Unit, 2 * Unit>>
    IN  [c \in 0..3 |-> Px(row[c + 1])]

\* the second joint of every instance is the first with x and y exchanged
EncKps(x, y, vis) ==
    [n \in Insts |-> [c \in 0..3 |-> [k \in 0..1 |->
        LET jx == IF n = 0 THEN x ELSE n + 2 * Unit
            jy == IF n = 0 THEN y ELSE Unit \div 2
            jv == IF n = 0 THEN vis ELSE 1
        IN  CASE c = 0 -> IF k = 0 THEN jx ELSE jy
              [] c = 1 -> IF k = 0 THEN jy ELSE jx
              [] c = 2 -> IF k = 0 THEN jv ELSE 1
              [] OTHER -> 0]]]

LabelBufs == {"keypoints", "rois", "heatmaps", "weights"}

InitEncode ==
    /\ pc = "start"
    /\ \E HS \in 1..MaxHeatmapSize, vis \in {0, 1},
          x1 \in RoiOrigins, w \in RoiSizes, g \in RoiSizes :
       \E x \in (x1 - 1)..(x1 + w + 1), y \in (0 - 1)..(g + 1) :
          /\ heap = [NoBufs(LabelBufs) EXCEPT
                        !["keypoints"] = EncKps(x, y, vis),
                        !["rois"] = [n \in Insts |-> RoiOf(n, x1, 0, x1 + w, g)]]
          /\ env = [op |-> "keypoints_to_heatmap_labels",
                    cfg |-> [HEATMAP_SIZE |-> HS, NUM_KEYPOINTS |-> 2],
                    keypoints |-> "keypoints", rois |-> "rois",
                    heatmaps |-> "", weights |-> ""]

\* the call; the assert of line 152 is its guard
KeypointsToHeatmapLabels ==
    /\ pc = "start" /\ env.op = "keypoints_to_heatmap_labels"
    /\ \A n \in DOMAIN heap[env.keypoints] :
          Cardinality(DOMAIN heap[env.keypoints][n][0]) = env.cfg.NUM_KEYPOINTS
    /\ LET r == keypoints_to_heatmap_labels(heap, env.keypoints, env.rois, env.cfg,
                                            "heatmaps", "weights")
       IN  /\ heap' = r.heap
           /\ env' = [env EXCEPT !.heatmaps = r.heatmaps, !.weights = r.weights]
    /\ pc' = "done"

(***************************************************************************)
(* scores_to_probs: the spatial softmax of each channel, written in place  *)
(* into the buffer it is given.  exp is not computed: a probability is the *)
(* symbolic value  e^exp / sum of cnt[d] * e^d  over the differences d of  *)
(* the channel's scores to its maximum.                                    *)
(***************************************************************************)
\* the cells of a 2-d map, and temp.max()
Cells(m) == {<<r, w>> : r \in DOMAIN m, w \in DOMAIN m[0]}
MapMax(m) == CHOOSE v \in {m[c[1]][c[2]] : c \in Cells(m)} :
                \A c \in Cells(m) : m[c[1]][c[2]] <= v

Softmax(m) ==
    LET max_score == MapMax(m)
        diffs == {m[c[1]][c[2]] - max_score : c \in Cells(m)}
        total == [d \in diffs |->
                    Cardinality({c \in Cells(m) : m[c[1]][c[2]] - max_score = d})]
    IN  [r \in DOMAIN m |-> [w \in DOMAIN m[0] |->
            [exp |-> m[r][w] - max_score, sum |-> total]]]

scores_to_probs(h, scores) ==
    [ref |-> scores,
     heap |-> [h EXCEPT ![scores] = [c \in DOMAIN h[scores] |-> Softmax(h[scores][c])]]]

\* roi_map_probs[k, :, :].max(): the probability with the largest exponent
ProbMax(pm) == CHOOSE q \in {pm[c[1]][c[2]] : c \in Cells(pm)} :
                  \A c \in Cells(pm) : pm[c[1]][c[2]].exp <= q.exp

(***************************************************************************)
(* heatmaps_to_keypoints.  `maps` is the (N, K, H, W) array of raw scores, *)
(* read through its NHWC view; `rois` the (N, 4) array.                    *)
(***************************************************************************)
\* widths = np.maximum(rois[:, 2] - rois[:, 0], 1), for one roi and one axis
RoiExtent(roi, lo, hi) == FMax(FSub(roi[hi], roi[lo]), FInt(1))

\* roi_map_width: int(np.maximum(widths_ceil[i], min_size)), or widths_ceil[i]
RoiMapSize(extent, min_size) ==
    IF min_size > 0 THEN IntOf(FMax(FCeil(extent), FInt(min_size)))
    ELSE IntOf(FCeil(extent))

\* cv2.resize(maps[i], (roi_map_width, roi_map_height), INTER_CUBIC): a new
\* array.  At the map's own size it holds the map's values; at another size
\* its values are the library's: any of the maps with one raised cell.
Cv2Resize(m, width, height) ==
    IF height = Cardinality(DOMAIN m[0]) /\ width = Cardinality(DOMAIN m[0][0])
    THEN {m}
    ELSE {[k \in DOMAIN m |-> [r \in 0..(height - 1) |-> [w \in 0..(width - 1) |->
              IF k = 0 /\ r = pr /\ w = pw THEN 5
              ELSE IF k # 0 /\ r = height - 1 - pr /\ w = width - 1 - pw THEN 5
              ELSE 0]]] : pr \in 0..(height - 1), pw \in 0..(width - 1)}

\* ndarray.argmax(): the flat (row-major) index of the first maximum
ArgMax(m) ==
    LET W == Cardinality(DOMAIN m[0])
        flat(c) == c[1] * W + c[2]
        best == CHOOSE c \in Cells(m) :
                   /\ m[c[1]][c[2]] = MapMax(m)
                   /\ \A d \in Cells(m) : m[d[1]][d[2]] = MapMax(m) => flat(c) <= flat(d)
    IN  flat(best)

\* x = (x_int + 1.5) * width_correction, the centre of the next cell
CellCentreNext(d, correction) == FMul(F(2 * d + 3, 2), correction)

\* x = (x_int + 0.5) * width_correction
CellCentre(d, correction) == FMul(F(2 * d + 1, 2), correction)

\* the body of the loop over the rois, for roi i and the resized map roi_map:
\* the row xy_preds[i], and the buffers the iteration leaves behind
DecodeRow(h, roi, roi_map, min_size) ==
    LET widths  == RoiExtent(roi, 0, 2)
        heights == RoiExtent(roi, 1, 3)
        roi_map_width  == RoiMapSize(widths, min_size)
        roi_map_height == RoiMapSize(heights, min_size)
        width_correction  == FDiv(widths, FInt(roi_map_width))
        height_correction == FDiv(heights, FInt(roi_map_height))
        h1 == [h EXCEPT !["roi_map"] = roi_map]
        c  == ndarray_copy(h1, "roi_map", "roi_map_probs")
        p  == scores_to_probs(c.heap, c.ref)
        w  == Cardinality(DOMAIN p.heap["roi_map"][0][0])
        pos(k)   == ArgMax(p.heap["roi_map"][k])
        x_int(k) == pos(k) % w
        y_int(k) == (pos(k) - x_int(k)) \div w
        probs == p.heap[p.ref]
    IN  [heap |-> p.heap,
         asserted |-> \A k \in DOMAIN roi_map :
                         probs[k][y_int(k)][x_int(k)] = ProbMax(probs[k]),
         row |-> [ch \in 0..3 |-> [k \in DOMAIN roi_map |->
                    CASE ch = 0 -> FAdd(CellCentre(x_int(k), width_correction), roi[0])
                      [] ch = 1 -> FAdd(CellCentre(y_int(k), height_correction), roi[1])
                      [] ch = 2 -> FInt(p.heap["roi_map"][k][y_int(k)][x_int(k)])
                      [] OTHER  -> probs[k][y_int(k)][x_int(k)]]]]

\* the raw-score maps: channel 0 of instance 0 has a 1 in its first cell and
\* the value v in cell (pr, pw); channel 1 is channel 0 turned half round; a
\* further instance n holds instance 0 transposed and raised by n
DecMaps(S, pr, pw, v) ==
    LET m0(r, w) == IF r = pr /\ w = pw THEN v ELSE IF r = 0 /\ w = 0 THEN 1 ELSE 0
        ch(k, r, w) == IF k = 0 THEN m0(r, w) ELSE m0(S - 1 - r, S - 1 - w)
    IN  [n \in Insts |-> [k \in 0..1 |-> [r \in 0..(S - 1) |-> [w \in 0..(S - 1) |->
            IF n = 0 THEN ch(k, r, w) ELSE ch(k, w, r) + n]]]]

DecodeBufs == {"maps", "rois", "roi_map", "roi_map_probs", "xy_preds"}

InitDecode ==
    /\ pc = "start"
    /\ \E S \in 1..MaxHeatmapSize, min_size \in 0..MaxHeatmapSize,
          x1 \in RoiOrigins, w \in RoiSizes, g \in RoiSizes :
       \E pr \in 0..(S - 1), pw \in 0..(S - 1), v \in {1, 2} :
          /\ heap = [NoBufs(DecodeBufs) EXCEPT
                        !["maps"] = DecMaps(S, pr, pw, v),
                        !["rois"] = [n \in Insts |-> RoiOf(n, x1, 0, x1 + w, g)]]
          /\ env = [op |-> "heatmaps_to_keypoints",
                    cfg |-> [INFERENCE_MIN_SIZE |-> min_size, NUM_KEYPOINTS |-> 2],
                    maps |-> "maps", rois |-> "rois", i |-> 0, ret |-> ""]

\* lines 98-111: xy_preds = np.zeros((len(rois), 4, NUM_KEYPOINTS))
DecodeStart ==
    /\ pc = "start" /\ env.op = "heatmaps_to_keypoints"
    /\ heap' = [heap EXCEPT !["xy_preds"] =
                  [n \in DOMAIN heap[env.rois] |-> [ch \in 0..3 |->
                      [k \in 0..(env.cfg.NUM_KEYPOINTS - 1) |-> FInt(0)]]]]
    /\ env' = [env EXCEPT !.i = 0]
    /\ pc' = "rois"

\* lines 112-138: one iteration of the loop over the rois
DecodeRoi ==
    /\ pc = "rois" /\ env.i < Cardinality(DOMAIN heap[env.rois])
    /\ LET roi == heap[env.rois][env.i]
           min_size == env.cfg.INFERENCE_MIN_SIZE
       IN  \E roi_map \in Cv2Resize(heap[env.maps][env.i],
                                    RoiMapSize(RoiExtent(roi, 0, 2), min_size),
                                    RoiMapSize(RoiExtent(roi, 1, 3), min_size)) :
              LET d == DecodeRow(heap, roi, roi_map, min_size)
              IN  /\ heap' = [d.heap EXCEPT !["xy_preds"][env.i] = d.row]
                  /\ pc' = IF d.asserted THEN "rois" ELSE "AssertionError"
    /\ env' = [env EXCEPT !.i = @ + 1]

\* line 140: return xy_preds
DecodeReturn ==
    /\ pc = "rois" /\ env.i = Cardinality(DOMAIN heap[env.rois])
    /\ env' = [env EXCEPT !.ret = "xy_preds"]
    /\ pc' = "done"
    /\ UNCHANGED heap

NextLabels == KeypointsToHeatmapLabels \/ DecodeStart \/ DecodeRoi \/ DecodeReturn

SpecLabels == (InitEncode \/ InitDecode) /\ [][NextLabels]_vars

(***************************************************************************)
(* Properties of the encoder and the decoder.                              *)
(***************************************************************************)
EncodeDone == pc = "done" /\ env.op = "keypoints_to_heatmap_labels"
DecodeDone == pc = "done" /\ env.op = "heatmaps_to_keypoints"

\* the continuous centre of cell i of an axis of a roi cut into HS cells
CentreOf(roi, lo, hi, i, HS) ==
    FAdd(roi[lo], FMul(F(2 * i + 1, 2 * HS), FSub(roi[hi], roi[lo])))

\* |a - b| <= tol
Within(a, b, tol) == FLe(FSub(a, b), tol) /\ FLe(FSub(b, a), tol)

\* the encoder's half of the round trip, for the rois `ok` admits: a visible
\* keypoint at the centre of cell (i, j) gets label j * HS + i and weight 1
EncodesCentres(ok(_)) ==
    EncodeDone =>
        LET kps  == heap[env.keypoints]
            rois == heap[env.rois]
            HS   == env.cfg.HEATMAP_SIZE
        IN  \A n \in DOMAIN rois : \A k \in 0..(env.cfg.NUM_KEYPOINTS - 1) :
            \A i \in 0..(HS - 1) : \A j \in 0..(HS - 1) :
               ( /\ ok(rois[n])
                 /\ kps[n][2][k] > 0
                 /\ FEq(Px(kps[n][0][k]), CentreOf(rois[n], 0, 2, i, HS))
                 /\ FEq(Px(kps[n][1][k]), CentreOf(rois[n], 1, 3, j, HS)) )
               => /\ FEq(heap[env.heatmaps][n][k], FInt(j * HS + i))
                  /\ FEq(heap[env.weights][n][k], FInt(1))

\* cell (j, i) (row j, column i) holds the one maximum of the map m
OnlyMaxAt(m, j, i) ==
    \A c \in Cells(m) : c # <<j, i>> => m[c[1]][c[2]] < m[j][i]

\* the decoder's half, for the rois `ok` admits: when the working resolution
\* is the heatmap's own size S and the one maximum is at cell (i, j), the
\* decoded x and y are within 0.5/scale of the centre of that cell
DecodesCentres(ok(_)) ==
    DecodeDone =>
        LET maps == heap[env.maps]
            rois == heap[env.rois]
            out  == heap[env.ret]
            ms   == env.cfg.INFERENCE_MIN_SIZE
        IN  \A n \in DOMAIN rois : \A k \in DOMAIN maps[n] :
            LET S == Cardinality(DOMAIN maps[n][k])
            IN  \A i \in 0..(S - 1) : \A j \in 0..(S - 1) :
                ( /\ ok(rois[n])
                  /\ RoiMapSize(RoiExtent(rois[n], 0, 2), ms) = S
                  /\ RoiMapSize(RoiExtent(rois[n], 1, 3), ms) = S
                  /\ OnlyMaxAt(maps[n][k], j, i) )
                => /\ Within(out[n][0][k], CentreOf(rois[n], 0, 2, i, S),
                             FDiv(F(1, 2), FDiv(FInt(S), FSub(rois[n][2], rois[n][0]))))
                   /\ Within(out[n][1][k], CentreOf(rois[n], 1, 3, j, S),
                             FDiv(F(1, 2), FDiv(FInt(S), FSub(rois[n][3], rois[n][1]))))

NonEmptyRoi(roi) == FGt(roi[2], roi[0]) /\ FGt(roi[3], roi[1])
PixelRoi(roi) == FGe(FSub(roi[2], roi[0]), FInt(1)) /\ FGe(FSub(roi[3], roi[1]), FInt(1))

\* C1 as stated: the round trip holds for every roi with x2 > x1 and y2 > y1.
RoundTripEveryRoi == EncodesCentres(NonEmptyRoi) /\ DecodesCentres(NonEmptyRoi)

\* C1, amended: the round trip holds for every roi at least one pixel wide
\* and one pixel high: a keypoint at the centre of cell (i, j) is encoded as
\* label j * HS + i with weight 1, and a heatmap with its one maximum at cell
\* (i, j), decoded at its own resolution, gives an (x, y) within 0.5/scale of
\* that centre on each axis.
RoundTripPixelRoi == EncodesCentres(PixelRoi) /\ DecodesCentres(PixelRoi)

\* a one-pixel-wide, two-pixel-high roi decoded at the heatmap's size 2, the
\* maximum in the last cell, and the decoded point the centre of that cell
RoundTripWitness ==
    /\ DecodeDone
    /\ env.cfg.INFERENCE_MIN_SIZE = 2
    /\ heap[env.rois][0] = RoiOf(0, 2, 0, 2 + Unit, 2 * Unit)
    /\ Cardinality(DOMAIN heap[env.maps][0][0]) = 2
    /\ OnlyMaxAt(heap[env.maps][0][0], 1, 1)
    /\ FEq(heap[env.ret][0][0][0], CentreOf(heap[env.rois][0], 0, 2, 1, 2))
    /\ FEq(heap[env.ret][0][1][0], CentreOf(heap[env.rois][0], 1, 3, 1, 2))

\* C3: a keypoint whose raw x equals the roi's x2 has discrete x index
\* HEATMAP_SIZE - 1, and one whose raw y equals y2 has discrete y index
\* HEATMAP_SIZE - 1; if it is visible and in range on the other axis it is
\* encoded with weight 1 and the label of that cell.
BoundaryClamp ==
    EncodeDone =>
        LET kps  == heap[env.keypoints]
            rois == heap[env.rois]
            HS   == env.cfg.HEATMAP_SIZE
            inRange(d) == FGe(d, FInt(0)) /\ FLt(d, FInt(HS))
        IN  \A n \in DOMAIN rois : \A k \in 0..(env.cfg.NUM_KEYPOINTS - 1) :
            \A ch \in 0..1 :
               FEq(Px(kps[n][ch][k]), rois[n][ch + 2]) =>
                  LET d == DiscreteCoord(kps, rois, HS, n, k, ch)
                      o == DiscreteCoord(kps, rois, HS, n, k, 1 - ch)
                  IN  /\ FEq(d, FInt(HS - 1))
                      /\ (kps[n][2][k] > 0 /\ inRange(o)) =>
                            /\ FEq(heap[env.weights][n][k], FInt(1))
                            /\ IsFin(o)
                            /\ FEq(heap[env.heatmaps][n][k],
                                   IF ch = 0 THEN FInt(IntOf(o) * HS + HS - 1)
                                   ELSE FInt((HS - 1) * HS + IntOf(o)))

\* a visible keypoint on the right edge of a one-pixel roi cut into two cells
BoundaryClampWitness ==
    /\ EncodeDone
    /\ env.cfg.HEATMAP_SIZE = 2
    /\ heap[env.rois][0] = RoiOf(0, 2, 0, 2 + Unit, Unit)
    /\ heap[env.keypoints][0][0][0] = 2 + Unit
    /\ heap[env.keypoints][0][1][0] = 1
    /\ heap[env.keypoints][0][2][0] = 1
    /\ FEq(heap[env.weights][0][0], FInt(1))
    /\ FEq(heap[env.heatmaps][0][0], FInt(1))

\* the validity and label rule, for the rois `ok` admits
LabelValidityOn(ok(_)) ==
    EncodeDone =>
        LET kps  == heap[env.keypoints]
            rois == heap[env.rois]
            HS   == env.cfg.HEATMAP_SIZE
            inRange(d) == FGe(d, FInt(0)) /\ FLt(d, FInt(HS))
        IN  \A n \in DOMAIN rois : \A k \in 0..(env.cfg.NUM_KEYPOINTS - 1) :
            LET x == DiscreteCoord(kps, rois, HS, n, k, 0)
                y == DiscreteCoord(kps, rois, HS, n, k, 1)
                weight == heap[env.weights][n][k]
                label  == heap[env.heatmaps][n][k]
            IN  ok(rois[n]) =>
                /\ FEq(weight, FInt(1)) \/ FEq(weight, FInt(0))
                /\ FEq(weight, FInt(1)) <=>
                      (kps[n][2][k] > 0 /\ inRange(x) /\ inRange(y))
                /\ FEq(weight, FInt(1)) =>
                      /\ FEq(label, FAdd(FMul(y, FInt(HS)), x))
                      /\ FGe(label, FInt(0)) /\ FLe(label, FInt(HS * HS - 1))
                /\ FEq(weight, FInt(0)) => FEq(label, FInt(0))

AnyRoi(roi) == TRUE

LabelValidityNonEmptyRoi == LabelValidityOn(NonEmptyRoi)

\* C9: a roi with x2 = x1 or y2 = y1 has its width and height clamped to at
\* least 1 before the scale factor is computed, in the encoder and in the
\* decoder, so that every result of the call is finite.
DegenerateRoiFinite ==
    LET degenerate(roi) == FEq(roi[2], roi[0]) \/ FEq(roi[3], roi[1]) IN
    /\ EncodeDone =>
          \A n \in DOMAIN heap[env.rois] :
             degenerate(heap[env.rois][n]) =>
                /\ IsFin(RoiScale(heap[env.rois][n], 0, 2, env.cfg.HEATMAP_SIZE))
                /\ IsFin(RoiScale(heap[env.rois][n], 1, 3, env.cfg.HEATMAP_SIZE))
                /\ \A k \in 0..(env.cfg.NUM_KEYPOINTS - 1) :
                      /\ IsFin(heap[env.heatmaps][n][k])
                      /\ IsFin(heap[env.weights][n][k])
    /\ DecodeDone =>
          \A n \in DOMAIN heap[env.rois] :
             degenerate(heap[env.rois][n]) =>
                \A k \in 0..(env.cfg.NUM_KEYPOINTS - 1) :
                   /\ IsFin(heap[env.ret][n][0][k])
                   /\ IsFin(heap[env.ret][n][1][k])

\* what does hold of the two functions: the decoder's results are finite on
\* every roi, and the encoder's on every roi with x2 > x1 and y2 > y1
FiniteWhereDefined ==
    /\ EncodeDone =>
          \A n \in DOMAIN heap[env.rois] :
             NonEmptyRoi(heap[env.rois][n]) =>
                \A k \in 0..(env.cfg.NUM_KEYPOINTS - 1) :
                   /\ IsFin(heap[env.heatmaps][n][k])
                   /\ FEq(heap[env.weights][n][k], FInt(0)) =>
                         FEq(heap[env.heatmaps][n][k], FInt(0))
    /\ DecodeDone =>
          \A n \in DOMAIN heap[env.rois] : \A k \in 0..(env.cfg.NUM_KEYPOINTS - 1) :
             IsFin(heap[env.ret][n][0][k]) /\ IsFin(heap[env.ret][n][1][k])

(***************************************************************************)
(* The calls whose arguments must come back untouched: the two flips and   *)
(* the decoder.                                                            *)
(***************************************************************************)
NextFrame == NextFlip \/ DecodeStart \/ DecodeRoi \/ DecodeReturn

SpecFrame == (InitFlip \/ InitDecode) /\ [][NextFrame]_vars

\* ndarray.shape of a 3-d and of a 4-d array
Shape3(a) == <<Cardinality(DOMAIN a), Cardinality(DOMAIN a[0]),
               Cardinality(DOMAIN a[0][0])>>
Shape4(a) == <<Cardinality(DOMAIN a), Cardinality(DOMAIN a[0]),
               Cardinality(DOMAIN a[0][0]), Cardinality(DOMAIN a[0][0][0])>>

\* C8: no step of flip_keypoints, flip_heatmaps or heatmaps_to_keypoints
\* changes the array it was given (nor the rois), and each result is a new
\* array of the documented shape: the argument's for the flips, and
\* (#rois, 4, #keypoints) for the decoder.
InputsKept ==
    [][ /\ env.op \in {"flip_keypoints", "flip_heatmaps"} =>
              /\ heap'[env.arg] = heap[env.arg]
              /\ pc = "start" =>
                    /\ env'.ret1 # env.arg
                    /\ heap'[env'.ret1] # <<>>
                    /\ IF env.op = "flip_keypoints"
                       THEN Shape3(heap'[env'.ret1]) = Shape3(heap[env.arg])
                       ELSE Shape4(heap'[env'.ret1]) = Shape4(heap[env.arg])
              /\ pc = "flipped" =>
                    /\ heap'[env.ret1] = heap[env.ret1]
                    /\ env'.ret2 \notin {env.arg, env.ret1}
        /\ env.op = "heatmaps_to_keypoints" =>
              /\ heap'[env.maps] = heap[env.maps]
              /\ heap'[env.rois] = heap[env.rois]
              /\ pc' = "done" =>
                    /\ env'.ret \notin {env.maps, env.rois}
                    /\ Shape3(heap'[env'.ret]) =
                          <<Cardinality(DOMAIN heap[env.rois]), 4,
                            env.cfg.NUM_KEYPOINTS>>
       ]_vars

\* the decoder has returned, its softmax written into the copy of roi_map and
\* not into roi_map, and the caller's maps are still raw scores
InputsKeptWitness ==
    /\ DecodeDone
    /\ heap["roi_map_probs"][0][0][0].exp <= 0
    /\ heap["roi_map"][0][0][0] \in Int
    /\ heap[env.maps][0][0][0][0] \in Int

(***************************************************************************)
(* compute_oks.  src_keypoints is 4 x K, src_roi has 4 entries,            *)
(* dst_keypoints is M x 4 x K; coordinates are whole pixels.  The result   *)
(* is the (M,) array of similarities, each an exact fraction.              *)
(***************************************************************************)
\* sigmas, times 1000 (the table of line 233 divided by 10.0)
Sigmas1000 == <<26, 25, 25, 35, 35, 79, 79, 72, 72, 62, 62, 107, 107, 87, 87, 89, 89>>

\* e = (dx**2 + dy**2) / vars / (src_area + np.spacing(1)) / 2 for joint k,
\* with vars = (sigmas * 2)**2 = 4 * Sigmas1000[k]^2 / 10^6; np.spacing(1)
\* is below the resolution of a src_area >= 1
OksExponent(d2, k, src_area) ==
    F(d2 * 125000, Sigmas1000[k + 1] * Sigmas1000[k + 1] * src_area)

\* np.exp(-e) taken for 1 whatever e is
ExpOfZero(e) == 1

\* np.exp(-e), where it is exact: 1 at e = 0, and 0.0 once it underflows
\* (every float64 e >= 746 does).  The poses of this model make no other e.
ExpNeg(e) ==
    CASE e.num = 0 -> 1
      [] FGe(e, FInt(746)) -> 0

\* np.sum(v) over the joints 0..k
RECURSIVE SumTo(_, _)
SumTo(v, k) == IF k < 0 THEN 0 ELSE v[k] + SumTo(v, k - 1)

compute_oks(src_keypoints, src_roi, dst_keypoints, dst_roi) ==
    LET src_area == (src_roi[2] - src_roi[0] + 1) * (src_roi[3] - src_roi[1] + 1)
        K == Cardinality(DOMAIN src_keypoints[0])
        term(m) == [k \in 0..(K - 1) |->
                      LET dx == dst_keypoints[m][0][k] - src_keypoints[0][k]
                          dy == dst_keypoints[m][1][k] - src_keypoints[1][k]
                      IN  ExpNeg(OksExponent(dx * dx + dy * dy, k, src_area))]
    IN  [m \in DOMAIN dst_keypoints |-> F(SumTo(term(m), K - 1), K)]

(***************************************************************************)
(* nms_oks                                                                 *)
(***************************************************************************)
\* np.mean(kp_predictions[:, 2, :], axis=1)
MeanScores(kp) ==
    [n \in DOMAIN kp |-> F(SumTo(kp[n][2], Cardinality(DOMAIN kp[n][2]) - 1),
                           Cardinality(DOMAIN kp[n][2]))]

\* scores.argsort()[::-1]: the indices by descending score.  The sort is not
\* stable, so equal scores may come in any order.
ArgsortDescending(scores) ==
    LET N == Cardinality(DOMAIN scores)
    IN  {o \in [1..N -> DOMAIN scores] :
            /\ \A a \in 1..N : \A b \in 1..N : a # b => o[a] # o[b]
            /\ \A a \in 1..N : \A b \in 1..N :
                  a < b => FGe(scores[o[a]], scores[o[b]])}

\* a[idx] for a list of 0-based indices into a sequence
Take(a, idx) == [j \in 1..Len(idx) |-> a[idx[j] + 1]]

\* the members of a set of integers, ascending
RECURSIVE Ascending(_)
Ascending(S) ==
    IF S = {} THEN <<>>
    ELSE LET lo == CHOOSE x \in S : \A y \in S : x <= y
         IN  <<lo>> \o Ascending(S \ {lo})

\* inds = np.where(ovr < thresh)[0]
WhereBelow(ovr, thresh) ==
    Ascending({m \in DOMAIN ovr : FLt(ovr[m], thresh)})

\* inds = np.where(ovr <= thresh)[0]
WhereAtMost(ovr, thresh) ==
    Ascending({m \in DOMAIN ovr : FLe(ovr[m], thresh)})

\* one pass of the while loop over `order`: [keep, order] afterwards
NmsPass(kp, rois, thresh, order, keep) ==
    LET i    == order[1]
        rest == [m \in 0..(Len(order) - 2) |-> order[m + 2]]
        ovr  == compute_oks(kp[i], rois[i],
                            [m \in DOMAIN rest |-> kp[rest[m]]],
                            [m \in DOMAIN rest |-> rois[rest[m]]])
        inds == WhereAtMost(ovr, thresh)
    IN  [keep |-> Append(keep, i),
         order |-> Take(order, [j \in 1..Len(inds) |-> inds[j] + 1])]

(***************************************************************************)
(* The inputs of nms_oks: poses whose joints sit on two anchor points far  *)
(* enough apart for exp to underflow, so that the similarity of two poses  *)
(* is the share of the joints they have in common.                         *)
(***************************************************************************)
\* most instances in a call
NumInst == 3
\* the distance of the two anchors, in pixels
AnchorGap == 50

\* a pose: every joint on anchor 0, every joint on anchor 1, or the first
\* nine joints on anchor 0 and the other eight on anchor 1
PoseKinds == {"left", "right", "split"}
AnchorOf(kind, k) ==
    CASE kind = "left" -> 0
      [] kind = "right" -> 1
      [] OTHER -> IF k < 9 THEN 0 ELSE 1

ScoreLevels == {1, 2}
Thresholds == {F(0 - 1, 1), F(0, 1), F(1, 2), F(1, 1)}

NmsKps(N, kinds, levels) ==
    [n \in 0..(N - 1) |-> [c \in 0..3 |-> [k \in Joints |->
        CASE c = 0 -> AnchorGap * AnchorOf(kinds[n], k)
          [] c = 1 -> k
          [] c = 2 -> levels[n]
          [] OTHER -> 0]]]

NmsRois(N) == [n \in 0..(N - 1) |-> [c \in 0..3 |-> IF c = 2 THEN 1 + (n % 2)
                                                    ELSE IF c = 3 THEN 1 ELSE 0]]

NmsBufs == {"kp_predictions", "rois"}

InitNms ==
    /\ pc = "start"
    /\ \E N \in 1..NumInst, thresh \in Thresholds :
       \E kinds \in [0..(N - 1) -> PoseKinds], levels \in [0..(N - 1) -> ScoreLevels] :
          /\ heap = [NoBufs(NmsBufs) EXCEPT
                        !["kp_predictions"] = NmsKps(N, kinds, levels),
                        !["rois"] = NmsRois(N)]
          /\ env = [op |-> "nms_oks", kp_predictions |-> "kp_predictions",
                    rois |-> "rois", thresh |-> thresh,
                    order |-> <<>>, keep |-> <<>>]

\* lines 210-213
NmsStart ==
    /\ pc = "start" /\ env.op = "nms_oks"
    /\ \E order \in ArgsortDescending(MeanScores(heap[env.kp_predictions])) :
          env' = [env EXCEPT !.order = order, !.keep = <<>>]
    /\ pc' = "while"
    /\ UNCHANGED heap

\* lines 214-219: one pass of the loop
NmsKeep ==
    /\ pc = "while" /\ Len(env.order) > 0
    /\ LET r == NmsPass(heap[env.kp_predictions], heap[env.rois], env.thresh,
                        env.order, env.keep)
       IN  env' = [env EXCEPT !.order = r.order, !.keep = r.keep]
    /\ UNCHANGED <<heap, pc>>

\* line 221: return keep
NmsReturn ==
    /\ pc = "while" /\ Len(env.order) = 0
    /\ pc' = "done"
    /\ UNCHANGED <<heap, env>>

NextNms == NmsStart \/ NmsKeep \/ NmsReturn

SpecNms == InitNms /\ [][NextNms]_vars

(***************************************************************************)
(* Properties of nms_oks.                                                  *)
(***************************************************************************)
NmsDone == pc = "done" /\ env.op = "nms_oks"

\* compute_oks(a as source, b), for two instances of the call
Oks(a, b) ==
    LET kp == heap[env.kp_predictions]
        rois == heap[env.rois]
    IN  compute_oks(kp[a], rois[a], <<kp[b]>>, <<rois[b]>>)[1]

\* C2: nms_oks returns distinct indices in descending order of mean score,
\* the highest-scoring instance first; a kept instance has similarity <=
\* thresh to every instance kept after it; and every instance that is not
\* returned has similarity > thresh to a kept instance that scores at least
\* as high and that no instance kept earlier had suppressed it before.
GreedySelection ==
    NmsDone =>
        LET keep == env.keep
            kept == {keep[j] : j \in 1..Len(keep)}
            all  == DOMAIN heap[env.kp_predictions]
            mean == MeanScores(heap[env.kp_predictions])
        IN  /\ Len(keep) >= 1
            /\ kept \subseteq all
            /\ \A a \in 1..Len(keep) : \A b \in 1..Len(keep) :
                  a < b => /\ keep[a] # keep[b]
                           /\ FGe(mean[keep[a]], mean[keep[b]])
                           /\ FLe(Oks(keep[a], keep[b]), env.thresh)
            /\ \A n \in all : FGe(mean[keep[1]], mean[n])
            /\ \A d \in all \ kept :
                  \E a \in 1..Len(keep) :
                     /\ FGt(Oks(keep[a], d), env.thresh)
                     /\ FGe(mean[keep[a]], mean[d])
                     /\ \A b \in 1..(a - 1) : FLe(Oks(keep[b], d), env.thresh)

\* three instances at thresh 0.5: a pose, its near copy (suppressed, with
\* 9 of 17 joints shared) and a pose elsewhere (kept)
GreedySelectionWitness ==
    /\ NmsDone
    /\ Cardinality(DOMAIN heap[env.kp_predictions]) = 3
    /\ env.thresh = F(1, 2)
    /\ Len(env.keep) = 2
    /\ \E d \in DOMAIN heap[env.kp_predictions] :
          /\ \A j \in 1..Len(env.keep) : env.keep[j] # d
          /\ Oks(env.keep[1], d) = F(9, 17)

\* two instances, every joint of the one AnchorGap pixels or more from the
\* same joint of the other
Disjoint2 ==
    LET kp == heap[env.kp_predictions]
    IN  /\ Cardinality(DOMAIN kp) = 2
        /\ \A k \in Joints :
              LET dx == kp[1][0][k] - kp[0][0][k]
                  dy == kp[1][1][k] - kp[0][1][k]
              IN  dx * dx + dy * dy >= AnchorGap * AnchorGap

\* the similarity of two such instances is 0.0 in both directions
ZeroOks == Oks(0, 1).num = 0 /\ Oks(1, 0).num = 0

\* C10 as stated: two instances whose similarity is 0 in both directions are
\* both returned, for every value of the threshold.
DisjointKeptAnyThresh ==
    (NmsDone /\ Disjoint2) =>
        ZeroOks /\ {env.keep[j] : j \in 1..Len(env.keep)} = {0, 1}

\* C10, amended: two instances whose similarity is 0 in both directions are
\* both returned for every threshold >= 0 (a threshold at or above their
\* similarity); below it only the higher-scoring one is returned.
DisjointKeptAtOrAbove ==
    (NmsDone /\ Disjoint2) =>
        /\ ZeroOks
        /\ IF FGe(env.thresh, FInt(0))
           THEN {env.keep[j] : j \in 1..Len(env.keep)} = {0, 1}
           ELSE Len(env.keep) = 1

\* two disjoint poses, at the threshold 0 that equals their similarity
DisjointKeptWitness ==
    /\ NmsDone /\ Disjoint2 /\ ZeroOks
    /\ env.thresh = F(0, 1)
    /\ Len(env.keep) = 2

(***************************************************************************)
(* generate_3d_integral_preds_tensor and softmax_integral_tensor.  A       *)
(* tensor of shape (B, K, cells) is a function of the batch index, the     *)
(* joint and the flat cell index; its values are exact fractions.  An      *)
(* optional extent (z_dim, hm_depth) is <<>> for None and <<d>> for d.     *)
(***************************************************************************)
\* the sum of f[0], ..., f[k]
RECURSIVE FSumTo(_, _)
FSumTo(f, k) == IF k < 0 THEN FInt(0) ELSE FAdd(FSumTo(f, k - 1), f[k])

\* a (.., n) array times torch.arange(n), summed over that axis
Integrate(accu) ==
    FSumTo([i \in DOMAIN accu |-> FMul(accu[i], FInt(i))], Cardinality(DOMAIN accu) - 1)

\* reshape((.., z_dim, y_dim, x_dim)) with the last two axes taken for one
\* another
ReshapeTransposed(flat, z_dim, y_dim, x_dim) ==
    [z \in 0..(z_dim - 1) |-> [y \in 0..(y_dim - 1) |-> [x \in 0..(x_dim - 1) |->
        flat[(z * x_dim + x) * y_dim + y]]]]

\* reshape((.., z_dim, y_dim, x_dim)) of one joint's flat map
Reshape(flat, z_dim, y_dim, x_dim) ==
    [z \in 0..(z_dim - 1) |-> [y \in 0..(y_dim - 1) |-> [x \in 0..(x_dim - 1) |->
        flat[(z * y_dim + y) * x_dim + x]]]]

\* lines 285-306, for one joint: hm is (z_dim, y_dim, x_dim)
Integral3d(hm, z_dim, y_dim, x_dim) ==
    LET Z == 0..(z_dim - 1)
        Y == 0..(y_dim - 1)
        X == 0..(x_dim - 1)
        \* heatmaps.sum(dim=2): over z, leaving (y, x)
        sum_z == [y \in Y |-> [x \in X |-> FSumTo([z \in Z |-> hm[z][y][x]], z_dim - 1)]]
        \* heatmaps.sum(dim=3): over y, leaving (z, x)
        sum_y == [z \in Z |-> [x \in X |-> FSumTo([y \in Y |-> hm[z][y][x]], y_dim - 1)]]
        accu_x == [x \in X |-> FSumTo([y \in Y |-> sum_z[y][x]], y_dim - 1)]
        accu_y == [y \in Y |-> FSumTo([x \in X |-> sum_z[y][x]], x_dim - 1)]
        accu_z == [z \in Z |-> FSumTo([x \in X |-> sum_y[z][x]], x_dim - 1)]
    IN  [x |-> <<Integrate(accu_x)>>, y |-> <<Integrate(accu_y)>>,
         z |-> <<Integrate(accu_z)>>]

\* lines 308-322, for one joint: hm is (y_dim, x_dim)
Integral2d(hm, y_dim, x_dim) ==
    LET Y == 0..(y_dim - 1)
        X == 0..(x_dim - 1)
        accu_x == [x \in X |-> FSumTo([y \in Y |-> hm[y][x]], y_dim - 1)]
        accu_y == [y \in Y |-> FSumTo([x \in X |-> hm[y][x]], x_dim - 1)]
    IN  [x |-> <<Integrate(accu_x)>>, y |-> <<Integrate(accu_y)>>, z |-> <<>>]

\* the three (B, K, 1) tensors accu_x, accu_y, accu_z (accu_z is None, <<>>,
\* without a z_dim), as one record per batch index and joint
generate_3d_integral_preds_tensor(heatmaps, num_joints, x_dim, y_dim, z_dim) ==
    [b \in DOMAIN heatmaps |-> [k \in 0..(num_joints - 1) |->
        IF z_dim # <<>>
        THEN Integral3d(Reshape(heatmaps[b][k], z_dim[1], y_dim, x_dim),
                        z_dim[1], y_dim, x_dim)
        ELSE Integral2d(Reshape(heatmaps[b][k], 1, y_dim, x_dim)[0], y_dim, x_dim)]]

\* torch.exp(v - max), where it is exact in float32: 1 at the maximum and
\* 0.0 a thousand below it.  The logits of this model make no other case.
ExpDiff(d) ==
    CASE d = 0 -> 1
      [] d <= 0 - 1000 -> 0

\* F.softmax(preds, 2), for one joint's flat logits
Softmax1d(logits) ==
    LET top == CHOOSE v \in {logits[c] : c \in DOMAIN logits} :
                  \A c \in DOMAIN logits : logits[c] <= v
        e == [c \in DOMAIN logits |-> ExpDiff(logits[c] - top)]
        total == SumTo(e, Cardinality(DOMAIN logits) - 1)
    IN  [c \in DOMAIN logits |-> F(e[c], total)]

\* torch.cat((x, y, z), dim=2) or torch.cat((x, y), dim=2): (B, K, 3 or 2)
softmax_integral_tensor(preds, num_joints, hm_width, hm_height, hm_depth) ==
    LET soft == [b \in DOMAIN preds |-> [k \in 0..(num_joints - 1) |->
                    Softmax1d(preds[b][k])]]
        r == generate_3d_integral_preds_tensor(soft, num_joints,
                                               hm_width, hm_height, hm_depth)
    IN  [b \in DOMAIN preds |-> [k \in 0..(num_joints - 1) |->
            IF hm_depth # <<>> THEN r[b][k].x \o r[b][k].y \o r[b][k].z
            ELSE r[b][k].x \o r[b][k].y]]

(***************************************************************************)
(* The inputs of the integral decoders: one batch entry, two joints.       *)
(* Joint 0 has the value `ground` in every cell but cell c (value v) and   *)
(* the last cell (value u); joint 1 is joint 0 read backwards.             *)
(***************************************************************************)
IntegralMap(cells, ground, c, v, u) ==
    LET j0(i) == IF i = c THEN v ELSE IF i = cells - 1 THEN u ELSE ground
    IN  [b \in {0} |-> [k \in 0..1 |-> [i \in 0..(cells - 1) |->
            IF k = 0 THEN j0(i) ELSE j0(cells - 1 - i)]]]

\* a tensor of whole numbers as a float tensor
AsFloat(t) ==
    [b \in DOMAIN t |-> [k \in DOMAIN t[b] |-> [i \in DOMAIN t[b][k] |->
        FInt(t[b][k][i])]]]
Depths == {<<>>} \cup {<<d>> : d \in 1..MaxHeatmapSize}
DepthOf(z_dim) == IF z_dim = <<>> THEN 1 ELSE z_dim[1]

IntegralBufs == {"heatmaps", "preds"}

InitIntegral ==
    /\ pc = "start"
    /\ \E x_dim \in 1..MaxHeatmapSize, y_dim \in 1..MaxHeatmapSize, z_dim \in Depths :
       \E c \in 0..(x_dim * y_dim * DepthOf(z_dim) - 1) :
          \/ \E ground \in {0, 1}, v \in {1, 2}, u \in {0, 1} :
                /\ heap = [NoBufs(IntegralBufs) EXCEPT
                              !["heatmaps"] =
                                 AsFloat(IntegralMap(x_dim * y_dim * DepthOf(z_dim),
                                                     ground, c, v, u))]
                /\ env = [op |-> "generate_3d_integral_preds_tensor",
                          arg |-> "heatmaps", num_joints |-> 2,
                          x_dim |-> x_dim, y_dim |-> y_dim, z_dim |-> z_dim,
                          ret |-> <<>>]
          \/ \E u \in {0 - 1000, 0} :
                /\ heap = [NoBufs(IntegralBufs) EXCEPT
                              !["preds"] =
                                 IntegralMap(x_dim * y_dim * DepthOf(z_dim),
                                             0 - 1000, c, 0, u)]
                /\ env = [op |-> "softmax_integral_tensor",
                          arg |-> "preds", num_joints |-> 2,
                          x_dim |-> x_dim, y_dim |-> y_dim, z_dim |-> z_dim,
                          ret |-> <<>>]

Generate3dIntegralPreds ==
    /\ pc = "start" /\ env.op = "generate_3d_integral_preds_tensor"
    /\ env' = [env EXCEPT !.ret =
                  generate_3d_integral_preds_tensor(heap[env.arg], env.num_joints,
                                                    env.x_dim, env.y_dim, env.z_dim)]
    /\ pc' = "done"
    /\ UNCHANGED heap

SoftmaxIntegral ==
    /\ pc = "start" /\ env.op = "softmax_integral_tensor"
    /\ env' = [env EXCEPT !.ret =
                  softmax_integral_tensor(heap[env.arg], env.num_joints,
                                          env.x_dim, env.y_dim, env.z_dim)]
    /\ pc' = "done"
    /\ UNCHANGED heap

NextIntegral == Generate3dIntegralPreds \/ SoftmaxIntegral

SpecIntegral == InitIntegral /\ [][NextIntegral]_vars

(***************************************************************************)
(* Properties of the integral decoders.                                    *)
(***************************************************************************)
\* the index of flat cell i along each axis: depth-major, then row, then
\* column
CellX(i, x_dim) == i % x_dim
CellY(i, x_dim, y_dim) == (i \div x_dim) % y_dim
CellZ(i, x_dim, y_dim) == i \div (x_dim * y_dim)

\* the sum over all cells of mass times idx(cell)
Expectation(mass, idx(_)) ==
    FSumTo([i \in DOMAIN mass |-> FMul(mass[i], FInt(idx(i)))],
           Cardinality(DOMAIN mass) - 1)

\* all of the mass of a map is the 1 in cell i
OneHotAt(mass, i) ==
    /\ FEq(mass[i], FInt(1))
    /\ \A j \in DOMAIN mass : j # i => FEq(mass[j], FInt(0))

\* the x, y (and z) a decoder must give for the maps `mass`, given as the
\* decoder's x, y, z of batch entry b and joint k
IntegralOf(mass, outX(_, _), outY(_, _), outZ(_, _)) ==
    \A b \in DOMAIN mass : \A k \in 0..(env.num_joints - 1) :
        LET m  == mass[b][k]
            cx(i) == CellX(i, env.x_dim)
            cy(i) == CellY(i, env.x_dim, env.y_dim)
            cz(i) == CellZ(i, env.x_dim, env.y_dim)
        IN  /\ FEq(outX(b, k), Expectation(m, cx))
            /\ FEq(outY(b, k), Expectation(m, cy))
            /\ env.z_dim # <<>> => FEq(outZ(b, k), Expectation(m, cz))
            /\ \A i \in DOMAIN m :
                  OneHotAt(m, i) =>
                     /\ FEq(outX(b, k), FInt(cx(i)))
                     /\ FEq(outY(b, k), FInt(cy(i)))
                     /\ env.z_dim # <<>> => FEq(outZ(b, k), FInt(cz(i)))

\* C7: in the 2D and in the 3D branch each axis output is the sum over all
\* cells of mass times that axis's index (layout depth-major, then row, then
\* column), so a map with all its mass on one cell (x0, y0[, z0]) decodes to
\* x0, y0 (and z0); softmax_integral_tensor gives the same of the softmax of
\* its input.
SoftIntegral ==
    /\ (pc = "done" /\ env.op = "generate_3d_integral_preds_tensor") =>
          LET gx(b, k) == env.ret[b][k].x[1]
              gy(b, k) == env.ret[b][k].y[1]
              gz(b, k) == env.ret[b][k].z[1]
          IN  /\ IntegralOf(heap[env.arg], gx, gy, gz)
              /\ env.z_dim = <<>> => \A b \in DOMAIN env.ret :
                    \A k \in DOMAIN env.ret[b] : env.ret[b][k].z = <<>>
    /\ (pc = "done" /\ env.op = "softmax_integral_tensor") =>
          LET sx(b, k) == env.ret[b][k][1]
              sy(b, k) == env.ret[b][k][2]
              sz(b, k) == env.ret[b][k][3]
              soft == [b \in DOMAIN heap[env.arg] |-> [k \in 0..(env.num_joints - 1) |->
                          Softmax1d(heap[env.arg][b][k])]]
          IN  /\ IntegralOf(soft, sx, sy, sz)
              /\ \A b \in DOMAIN env.ret : \A k \in DOMAIN env.ret[b] :
                    Len(env.ret[b][k]) = IF env.z_dim = <<>> THEN 2 ELSE 3

\* a 2 x 2 x 2 impulse at (x, y, z) = (0, 1, 1), flat cell 6, through the
\* softmax and the 3D integral
SoftIntegralWitness ==
    /\ pc = "done" /\ env.op = "softmax_integral_tensor"
    /\ env.x_dim = 2 /\ env.y_dim = 2 /\ env.z_dim = <<2>>
    /\ heap[env.arg][0][0][6] = 0
    /\ \A i \in 0..7 : i # 6 => heap[env.arg][0][0][i] = 0 - 1000
    /\ FEq(env.ret[0][0][1], FInt(0))
    /\ FEq(env.ret[0][0][2], FInt(1))
    /\ FEq(env.ret[0][0][3], FInt(1))

=============================================================================
